---------------------------- MODULE Spec2Model ----------------------------
(***************************************************************************)
(* Model of tinyopt's Gauss-Newton driver, tinyopt::gn::GN                 *)
(* (include/tinyopt/gn.h), with its Options and Output records, and of the *)
(* Gauss-Newton solver class, tinyopt::solvers::SolverGN.                  *)
(*                                                                         *)
(* One run of GN is one behaviour: Init is the state of GN right before    *)
(* the first test of the loop condition (gn.h:107-123), Iteration is one   *)
(* pass through the body of the loop (gn.h:124-271) and Return is the exit *)
(* of the loop by its condition (gn.h:124, 272).  The accumulation         *)
(* function `acc` is the caller's: each call returns any of the values of  *)
(* EvalOutputs.                                                            *)
(*                                                                         *)
(* Scalars are IEEE doubles: a finite value (an integer of the model), an  *)
(* infinity or a NaN.  The parameter X is a dynamically sized vector of    *)
(* dimension 0 or 1.                                                       *)
(*                                                                         *)
(* PureSpec is a run of GN with an acc that is a pure function of X;       *)
(* LongSpec is a run with the caps and the thresholds off and a constant  *)
(* acc, followed for MaxPasses passes.                                     *)
(*                                                                         *)
(* SolverSpec is the life of one SolverGN<MatX>: InitWith, resize, reset,  *)
(* Build, Evaluate and Solve called on systems of dimension 1 and 2.       *)
(*                                                                         *)
(* TraitSpec is a parameter type with an object of it, and the calls of    *)
(* dims and pluseq of its params_trait (include/tinyopt/traits.h).         *)
(*                                                                         *)
(* LmSpec is one run of lm::Optimize with a wall-clock budget              *)
(* (options.max_duration_ms, tests/basic.cpp:92-106), every call of the    *)
(* evaluator taking some milliseconds.                                     *)
(*                                                                         *)
(* Each specification leaves the variables of the others at rest.          *)
(***************************************************************************)
EXTENDS Integers, Sequences, FiniteSets, TLC

VARIABLES
    options,              \* const Options &options
    X,                    \* ParametersType &X
    X_last_good,          \* auto X_last_good
    already_rolled_true,  \* bool already_rolled_true
    out,                  \* OutputType out
    pc,                   \* "loop": inside GN, "done": GN has returned
    h_calls,              \* history: number of calls of acc
    h_entry,              \* history: X when GN was entered
    h_pre_step,           \* history: X right before the latest pluseq
    h_best,               \* history: latest X at which a cost was accepted
    h_best_cost,          \* history: the cost acc returned at h_best (a double)
    h_iter,               \* history: what the latest pass through the loop did
    h_seen,               \* history: what acc returned at each X, when kept
    options_,             \* SolverGN: const Options options_
    H_,                   \* SolverGN: H_t H_
    grad_,                \* SolverGN: Grad_t grad_
    err_,                 \* SolverGN: the cost of the latest accumulation
    nerr_,                \* SolverGN: its number of residuals
    s_last,               \* history: the latest call on the solver
    lm_options,           \* lm::Optimize: const lm::Options &options
    lm_elapsed,           \* lm::Optimize: milliseconds since the run began
    lm_out,               \* lm::Optimize: the output
    lm_pc,                \* "loop": inside lm::Optimize, "done": it returned
    lm_h,                 \* history: evaluator calls, time checks, overrun
    tr_T,                 \* params_trait<T>: the parameter type T
    tr_v,                 \* params_trait<T>: an object of type T
    tr_last               \* history: the latest call on the trait

gnVars == <<options, X, X_last_good, already_rolled_true, out, pc,
            h_calls, h_entry, h_pre_step, h_best, h_best_cost, h_iter,
            h_seen>>

solverVars == <<options_, H_, grad_, err_, nerr_, s_last>>

lmVars == <<lm_options, lm_elapsed, lm_out, lm_pc, lm_h>>

traitVars == <<tr_T, tr_v, tr_last>>

vars == <<gnVars, solverVars, lmVars, traitVars>>

-----------------------------------------------------------------------------
(* Bounds of the model *)

\* largest options.num_iters of the model
MaxIters == 2

\* largest number of passes followed in a run whose options.num_iters is the
\* largest a uint16_t holds
MaxPasses == 260

\* largest number of rows, and of columns, of a parameter object
MaxShape == 3

-----------------------------------------------------------------------------
(* Scalars.  A double is finite, infinite or a NaN.  A finite double is    *)
(* v + lo * eps: v is the part a float holds too, lo * eps the part below *)
(* the resolution of a float (eps is tiny: of two finite doubles, the one *)
(* of smaller v is the smaller, whatever the lo).  A float is a double    *)
(* whose lo is 0.                                                         *)

FinLo(n, l) == [k |-> "fin", v |-> n, lo |-> l]
Fin(n) == FinLo(n, 0)
NaN == [k |-> "nan", v |-> 0, lo |-> 0]
PInf == [k |-> "inf", v |-> 1, lo |-> 0]
NInf == [k |-> "inf", v |-> -1, lo |-> 0]

IsNaN(a) == a.k = "nan"
IsFin(a) == a.k = "fin"
IsInf(a) == a.k = "inf"

Sgn(n) == IF n > 0 THEN 1 ELSE IF n < 0 THEN -1 ELSE 0

\* the sign of a double that is no NaN
SgnOf(a) == IF a.v # 0 THEN Sgn(a.v) ELSE Sgn(a.lo)

\* the conversion of a double to float: rounds to the nearest float (the
\* finite doubles of the model are far below the largest float)
ToFloat(a) == [a EXCEPT !.lo = 0]

\* -a
Neg(a) == IF IsNaN(a) THEN NaN ELSE [a EXCEPT !.v = -a.v, !.lo = -a.lo]

\* std::abs(a)
Abs(a) == IF IsNaN(a) THEN NaN ELSE IF SgnOf(a) < 0 THEN Neg(a) ELSE a

\* a + b
Add(a, b) ==
    IF IsNaN(a) \/ IsNaN(b) THEN NaN
    ELSE IF IsInf(a) /\ IsInf(b) THEN (IF a.v = b.v THEN a ELSE NaN)
    ELSE IF IsInf(a) THEN a
    ELSE IF IsInf(b) THEN b
    ELSE FinLo(a.v + b.v, a.lo + b.lo)

\* a * b
Mul(a, b) ==
    IF IsNaN(a) \/ IsNaN(b) THEN NaN
    ELSE IF IsInf(a) \/ IsInf(b)
         THEN (IF SgnOf(a) * SgnOf(b) = 0 THEN NaN
               ELSE [k |-> "inf", v |-> SgnOf(a) * SgnOf(b), lo |-> 0])
    ELSE FinLo(a.v * b.v, a.v * b.lo + a.lo * b.v)

\* n / m for integers, m dividing n: the model holds no other quotient
Quot(n, m) == CHOOSE q \in -(n * Sgn(n))..(n * Sgn(n)) : q * m = n

\* a / b; the finite divisors of the model are 0 and integers that divide
\* their dividend, and a 0 that was written is +0
Div(a, b) ==
    IF IsNaN(a) \/ IsNaN(b) THEN NaN
    ELSE IF IsInf(a) /\ IsInf(b) THEN NaN
    ELSE IF IsInf(a) THEN [a EXCEPT !.v = a.v * (IF SgnOf(b) < 0 THEN -1 ELSE 1)]
    ELSE IF IsInf(b) THEN Fin(0)
    ELSE IF SgnOf(b) = 0
         THEN (IF SgnOf(a) = 0 THEN NaN
               ELSE [k |-> "inf", v |-> SgnOf(a), lo |-> 0])
    ELSE FinLo(Quot(a.v, b.v), Quot(a.lo, b.v))

\* a < b
Lt(a, b) ==
    IF IsNaN(a) \/ IsNaN(b) THEN FALSE
    ELSE IF IsInf(a) THEN a.v = -1 /\ b # NInf
    ELSE IF IsInf(b) THEN b.v = 1
    ELSE a.v < b.v \/ (a.v = b.v /\ a.lo < b.lo)

\* a > b
Gt(a, b) == Lt(b, a)

-----------------------------------------------------------------------------
(* Vectors and matrices (Eigen): a vector is a sequence of scalars, a matrix *)
(* a sequence of rows.  The model holds dimensions 0, 1 and 2.               *)

\* Matrix::Zero(rows, cols) / setZero()
ZeroVec(n) == [i \in 1..n |-> Fin(0)]
ZeroMat(n) == [i \in 1..n |-> [j \in 1..n |-> Fin(0)]]

RECURSIVE SumSq(_, _)
SumSq(v, n) == IF n = 0 THEN Fin(0) ELSE Add(SumSq(v, n - 1), Mul(v[n], v[n]))

\* v.squaredNorm()
SquaredNorm(v) == SumSq(v, Len(v))

\* -v
NegVec(v) == [i \in 1..Len(v) |-> Neg(v[i])]

\* the 2x2 factorization P A P^T = L D L^T of Eigen's LDLT, which reads the
\* upper triangle of H: the larger diagonal coefficient a is the first pivot
\* (swap), l is the coefficient of L below the diagonal, D1 and D2 are the
\* diagonal of D; when the whole diagonal is 0 nothing is eliminated
Ldlt2Signs(swap, a, l, D2) ==
    [swap |-> swap, l |-> l, D1 |-> a, D2 |-> D2,
     positive |-> Gt(a, Fin(0)) /\ ~Lt(D2, Fin(0))]

Ldlt2Eliminate(swap, a, l, d) ==
    Ldlt2Signs(swap, a, l, Add(d, Neg(Mul(Mul(l, a), l))))

Ldlt2Pivot(swap, a, d, c) ==
    IF Gt(Abs(a), Fin(0)) THEN Ldlt2Eliminate(swap, a, Div(c, a), d)
    ELSE [swap |-> swap, l |-> c, D1 |-> a, D2 |-> d, positive |-> TRUE]

Ldlt2(H) ==
    IF Gt(Abs(H[2][2]), Abs(H[1][1]))
    THEN Ldlt2Pivot(TRUE, H[2][2], H[1][1], H[1][2])
    ELSE Ldlt2Pivot(FALSE, H[1][1], H[2][2], H[1][2])

\* SelfAdjointView<Upper>(JtJ).ldlt().isPositive(): the 1x1 factorization is
\* negative when its coefficient is < 0, positive when it is > 0 and of zero
\* sign otherwise; the empty one is of zero sign; isPositive() holds unless
\* the sign is negative (or, from dimension 2, the signs of D differ)
LdltIsPositive(H) ==
    IF Len(H) = 0 THEN TRUE
    ELSE IF Len(H) = 1 THEN ~Lt(H[1][1], Fin(0))
    ELSE Ldlt2(H).positive

\* y divided by a coefficient d of D; a d that is not above the smallest
\* positive double gives 0 (pseudo-inverse of D)
PseudoDiv(y, d) == IF Gt(d, Fin(0)) \/ Lt(d, Fin(0)) THEN Div(y, d) ELSE Fin(0)

\* the 2x2 solve with the factorization f, in the order of the pivots: the
\* backward substitution, after the forward one and the division by D
Ldlt2Backward(f, y1, z2) == <<Add(PseudoDiv(y1, f.D1), Neg(Mul(f.l, z2))), z2>>
Ldlt2Forward(f, y1, b2) ==
    Ldlt2Backward(f, y1, PseudoDiv(Add(b2, Neg(Mul(f.l, y1))), f.D2))

\* P^T v and P b, for the transposition P
Swap2(v) == <<v[2], v[1]>>

Ldlt2Solve(f, b) ==
    IF f.swap THEN Swap2(Ldlt2Forward(f, b[2], b[1]))
    ELSE Ldlt2Forward(f, b[1], b[2])

\* chol.solve(b): P^T L^-T D^+ L^-1 P b
LdltSolve(H, b) ==
    IF Len(H) = 0 THEN <<>>
    ELSE IF Len(H) = 1 THEN <<PseudoDiv(b[1], H[1][1])>>
    ELSE Ldlt2Solve(Ldlt2(H), b)

\* the 2x2 inverse times b: the adjugate times 1 / determinant.  For a
\* determinant that is finite and not 0 the model divides last (1 /
\* determinant is no integer), which is the same value
Inverse2ByInvDet(H, b, invdet) ==
    <<Add(Mul(Mul(H[2][2], invdet), b[1]), Mul(Mul(Neg(H[1][2]), invdet), b[2])),
      Add(Mul(Mul(Neg(H[2][1]), invdet), b[1]), Mul(Mul(H[1][1], invdet), b[2]))>>

Inverse2Times(H, b, det) ==
    IF IsFin(det) /\ SgnOf(det) # 0
    THEN <<Div(Add(Mul(H[2][2], b[1]), Mul(Neg(H[1][2]), b[2])), det),
           Div(Add(Mul(Neg(H[2][1]), b[1]), Mul(H[1][1], b[2])), det)>>
    ELSE Inverse2ByInvDet(H, b, Div(Fin(1), det))

\* JtJ.inverse() * b
InverseTimes(H, b) ==
    IF Len(H) = 0 THEN <<>>
    ELSE IF Len(H) = 1 THEN <<Mul(Div(Fin(1), H[1][1]), b[1])>>
    ELSE Inverse2Times(H, b, Add(Mul(H[1][1], H[2][2]),
                                 Neg(Mul(H[1][2], H[2][1]))))

\* JtJ.triangularView<Lower>() = JtJ.triangularView<Upper>().transpose()
FillLower(H) == [i \in 1..Len(H) |-> [j \in 1..Len(H) |->
                    IF j < i THEN H[j][i] ELSE H[i][j]]]

-----------------------------------------------------------------------------
(* traits::params_trait of an Eigen vector *)

\* ptrait::dims(X)
dims(x) == Len(x)

\* ptrait::pluseq(X, dX)
pluseq(x, delta) == [i \in 1..Len(x) |-> Add(x[i], delta[i])]

\* Eigen::Dynamic
Dynamic == -1

\* the parameter types: a scalar, an Eigen matrix type with its
\* RowsAtCompileTime and ColsAtCompileTime, and a type T of the caller that
\* has T::Dims (T_Dims) and dims()
CompileTimeSizes == {Dynamic} \cup (1..MaxShape)

ScalarType ==
    [kind |-> "scalar", RowsAtCompileTime |-> 1, ColsAtCompileTime |-> 1,
     T_Dims |-> 1]

ParamTypes ==
    {ScalarType}
    \cup [kind : {"matrix"}, RowsAtCompileTime : CompileTimeSizes,
          ColsAtCompileTime : CompileTimeSizes, T_Dims : {Dynamic}]
    \cup [kind : {"custom"}, RowsAtCompileTime : {1}, ColsAtCompileTime : {1},
          T_Dims : CompileTimeSizes]

\* the sizes an object may have at run time, given the size of its type
RunTimeSizes(size) == IF size = Dynamic THEN 0..MaxShape ELSE {size}

\* the objects of a type: rows() and cols() of a matrix, what v.dims()
\* returns for a type of the caller
Objects(T) ==
    IF T.kind = "scalar" THEN {[rows |-> 1, cols |-> 1, dims |-> 1]}
    ELSE IF T.kind = "matrix"
    THEN [rows : RunTimeSizes(T.RowsAtCompileTime),
          cols : RunTimeSizes(T.ColsAtCompileTime), dims : {0}]
    ELSE [rows : {1}, cols : {1}, dims : 0..MaxShape]

\* params_trait<T>::Dims
params_trait_Dims(T) ==
    IF T.kind = "scalar" THEN 1
    ELSE IF T.kind = "matrix" THEN T.RowsAtCompileTime
    ELSE T.T_Dims

\* params_trait<T>::dims(v)
params_trait_dims(T, v) ==
    IF T.kind = "scalar" THEN 1
    ELSE IF T.kind = "matrix" THEN v.rows * v.cols
    ELSE IF T.T_Dims = Dynamic THEN v.dims ELSE T.T_Dims

\* the lengths a delta of type Eigen::Vector<Scalar, Dims> may have
DeltaSizes(T) == RunTimeSizes(params_trait_Dims(T))

\* params_trait<T>::pluseq(v, delta) compiles and stays in bounds for a delta
\* of n coefficients: v += delta[0] for a scalar, v += delta for a matrix,
\* which Eigen takes when v is a column of n coefficients, and the operator
\* += of a type of the caller
PluseqDefined(T, v, n) ==
    IF T.kind = "matrix"
    THEN T.ColsAtCompileTime \in {1, Dynamic} /\ v.cols = 1 /\ v.rows = n
    ELSE TRUE

\* tr_last before the first call: the operation, what dims returned and the
\* length of the delta given to pluseq
NoTraitCall == [op |-> "none", dims |-> 0, delta |-> 0]

\* no trait is looked at
TraitIdle ==
    /\ tr_T = ScalarType
    /\ tr_v = [rows |-> 1, cols |-> 1, dims |-> 1]
    /\ tr_last = NoTraitCall

-----------------------------------------------------------------------------
(* struct Options *)

\* the values of options.min_delta_norm2 and of options.min_grad_norm2: 0
\* (the criterion is off) and a threshold that only a zero norm is below
Thresholds == {0, 1}

\* the values of options.max_total_failures and options.max_consec_failures
TotalCaps == {0, 1}
ConsecCaps == {0, 1, 2, 3}

OptionsSet ==
    [ldlt : BOOLEAN, JtJ_is_full : {TRUE}, num_iters : {0, MaxIters},
     min_delta_norm2 : Thresholds, min_grad_norm2 : Thresholds,
     max_total_failures : TotalCaps, max_consec_failures : ConsecCaps,
     export_JtJ : {TRUE}]

\* Options{}
DefaultOptions ==
    [ldlt |-> TRUE, JtJ_is_full |-> TRUE, num_iters |-> MaxIters,
     min_delta_norm2 |-> 0, min_grad_norm2 |-> 1,
     max_total_failures |-> 1, max_consec_failures |-> 1, export_JtJ |-> TRUE]

-----------------------------------------------------------------------------
(* struct Output *)

StopReasons == {"kMaxIters", "kMinDeltaNorm", "kMinGradNorm", "kMaxFails",
                "kMaxConsecFails", "kSystemHasNaNs", "kSolverFailed",
                "kNoResiduals"}

\* std::numeric_limits<float>::max(), above every finite cost of the model
FltMax == 1000000

\* Succeeded() without the test of kSolverFailed
Succeeded_NoSolverFailed(o) ==
    o.stop_reason # "kSystemHasNaNs" /\ o.stop_reason # "kNoResiduals"

\* bool Succeeded() const
Succeeded(o) ==
    /\ o.stop_reason # "kSystemHasNaNs"
    /\ o.stop_reason # "kSolverFailed"
    /\ o.stop_reason # "kNoResiduals"

\* bool Converged() const
Converged(o) == o.stop_reason = "kMinDeltaNorm" \/ o.stop_reason = "kMinGradNorm"

\* OutputType out; and the lines that follow it up to the loop
InitOut(size, opts) ==
    [last_err2 |-> Fin(FltMax),
     stop_reason |-> "kMaxIters",
     num_residuals |-> 0,
     num_iters |-> 0,
     num_failures |-> 0,
     num_consec_failures |-> 0,
     last_JtJ |-> IF opts.export_JtJ THEN ZeroMat(size) ELSE <<>>,
     errs2 |-> <<>>,                \* errs2.reserve(num_iters + 2)
     deltas2 |-> <<Fin(0 + 2)>>,    \* deltas2.emplace_back(num_iters + 2)
     successes |-> <<TRUE>>]        \* successes.emplace_back(num_iters + 2)

-----------------------------------------------------------------------------
(* The accumulation function acc(X, JtJ, Jt_res) *)

\* acc as a caller writes it: a finite cost, and every Hessian and gradient
\* coefficient of the model (a coefficient acc does not write stays 0)
RegularOutputs ==
    [err : {Fin(0), Fin(1)}, nerr : {1},
     H : {<< <<h>> >> : h \in {Fin(-1), Fin(0), Fin(1)}},
     grad : {<<g>> : g \in {Fin(0), Fin(1)}}]

\* acc returning a cost, or leaving a coefficient, that is not finite
NonFiniteOutputs ==
    [err : {NaN, PInf}, nerr : {1}, H : {<< <<Fin(1)>> >>}, grad : {<<Fin(1)>>}]
    \cup [err : {Fin(0)}, nerr : {1}, H : {<< <<Fin(1)>> >>},
          grad : {<<NaN>>, <<PInf>>}]
    \cup [err : {Fin(0)}, nerr : {1}, H : {<< <<NaN>> >>}, grad : {<<Fin(1)>>}]

\* acc returning a finite cost that no float holds: the nearest float is
\* above it
SubFloatOutputs ==
    [err : {FinLo(1, -1)}, nerr : {1}, H : {<< <<Fin(1)>> >>},
     grad : {<<Fin(0)>>, <<Fin(1)>>}]

\* acc reporting no residuals
NoResidualOutputs ==
    [err : {Fin(0)}, nerr : {0}, H : {ZeroMat(1)}, grad : {ZeroVec(1)}]

\* the results of one call of acc on an x of dimension size: the cost, the
\* number of residuals and the contents of the two buffers
EvalOutputs(size) ==
    IF size = 0
    THEN [err : {Fin(0), Fin(1), PInf}, nerr : {0, 1}, H : {<<>>}, grad : {<<>>}]
    ELSE RegularOutputs \cup SubFloatOutputs \cup NonFiniteOutputs
         \cup NoResidualOutputs

\* acc(X, JtJ, Jt_res) for an acc declared (x, grad, H), as docs/API.md and
\* the tests declare it: JtJ is passed second and Jt_res third, so the
\* coefficient acc wrote as grad(0) is JtJ(0, 0) and the one it wrote as
\* H(0, 0) is Jt_res(0)
AccParams(r) ==
    [grad |-> IF Len(r.H) = 0 THEN <<>> ELSE <<r.H[1][1]>>,
     H |-> IF Len(r.grad) = 0 THEN <<>> ELSE << <<r.grad[1]>> >>]

\* the loss of the test of GN on a double x: res = x - 2; H(0, 0) = 1;
\* grad(0) = res; return std::abs(res); as a test of what a call of acc
\* at x returned and wrote
IsTestLoss(x, r) ==
    /\ Len(x) = 1
    /\ r.nerr = 1
    /\ r.err = Abs(Add(x[1], Fin(-2)))
    /\ AccParams(r).H = << <<Fin(1)>> >>
    /\ AccParams(r).grad = <<Add(x[1], Fin(-2))>>

-----------------------------------------------------------------------------
(* GN(X, acc, options) *)

\* the uint8_t and uint16_t counters
Inc8(n) == (n + 1) % 256
Inc16(n) == (n + 1) % 65536

Max2(a, b) == IF a > b THEN a ELSE b

\* const uint8_t max_tries
MaxTries(opts) ==
    IF opts.max_consec_failures > 0 THEN Max2(1, opts.max_total_failures) ELSE 255

\* derr < 0.0, with derr = err - out.last_err2
DerrNegative(err, last_err2) == Lt(Add(err, Neg(last_err2)), Fin(0))

\* the test of the step's quality: derr < 0.0 && !solver_failed
GoodStep(derr_negative, solver_failed) == derr_negative /\ ~solver_failed

\* dX.setZero() and the loop that solves the linear system: the step, whether
\* the solver failed, the two failure counters after it, and what it did
\* ("ok": solved, "failed": the factorization is not positive, "skipped": the
\* loop was not entered, "nores": there was nothing to solve)
SolveSystem(opts, JtJ, Jt_res, skip_solver, o) ==
    LET zero == ZeroVec(Len(Jt_res))
        keep == [dX |-> zero, solver_failed |-> skip_solver,
                 num_consec_failures |-> o.num_consec_failures,
                 num_failures |-> o.num_failures,
                 solve |-> IF skip_solver THEN "nores" ELSE "skipped"]
    IN  IF ~skip_solver /\ o.num_consec_failures <= MaxTries(opts)
        THEN IF opts.ldlt
             THEN IF LdltIsPositive(JtJ)
                  THEN [keep EXCEPT !.dX = NegVec(LdltSolve(JtJ, Jt_res)),
                                    !.solver_failed = FALSE, !.solve = "ok"]
                  ELSE [keep EXCEPT !.solver_failed = TRUE, !.solve = "failed",
                                    !.num_consec_failures = Inc8(@),
                                    !.num_failures = Inc8(@)]
             ELSE LET full == IF ~opts.JtJ_is_full THEN FillLower(JtJ) ELSE JtJ
                  IN  [keep EXCEPT !.dX = NegVec(InverseTimes(full, Jt_res)),
                                   !.solver_failed = FALSE, !.solve = "ok"]
        ELSE keep

\* a roll-back that sets the flag and leaves X as it is
RollBack_NoCopy(x, x_last_good, rolled) ==
    [X |-> x, already_rolled_true |-> TRUE]

\* the roll-back of a bad step: X and already_rolled_true after it
RollBack(x, x_last_good, rolled) ==
    IF ~rolled THEN [X |-> x_last_good, already_rolled_true |-> TRUE]
    ELSE [X |-> x, already_rolled_true |-> rolled]

\* X_last_good after a good step
Commit(x, x_last_good, num_iters) == IF num_iters > 0 THEN x ELSE x_last_good

\* the stop checks that end a pass of the loop, in the order of the code: the
\* stop reason that breaks out of the loop, or "none"
StopCheck(opts, good, num_consec_failures, num_failures, system_has_nans, solver_failed, dX_norm2, Jt_res_norm2) ==
    IF ~good /\ opts.max_consec_failures > 0
             /\ num_consec_failures >= opts.max_consec_failures
    THEN "kMaxConsecFails"
    ELSE IF ~good /\ opts.max_total_failures > 0
                  /\ num_failures >= opts.max_total_failures
    THEN "kMaxFails"
    ELSE IF system_has_nans THEN "kSystemHasNaNs"
    ELSE IF solver_failed THEN "kSolverFailed"
    ELSE IF opts.min_delta_norm2 > 0 /\ Lt(dX_norm2, Fin(opts.min_delta_norm2))
    THEN "kMinDeltaNorm"
    ELSE IF opts.min_grad_norm2 > 0 /\ Lt(Jt_res_norm2, Fin(opts.min_grad_norm2))
    THEN "kMinGradNorm"
    ELSE "none"

-----------------------------------------------------------------------------
(* class SolverGN<MatX>: the options, the accumulation adapter, Build, Solve *)

\* std::sqrt(a); the finite arguments of the model are perfect squares
Sqrt(a) ==
    IF IsNaN(a) \/ a = NInf \/ (IsFin(a) /\ a.v < 0) THEN NaN
    ELSE IF IsInf(a) THEN a
    ELSE Fin(CHOOSE q \in 0..a.v : q * q = a.v)

\* v.norm()
Norm(v) == Sqrt(SquaredNorm(v))

\* the options a SolverGN reads: the linear solver and the check of the
\* diagonal and, for one linear solver, the clipping of the gradient and the
\* normalisation of the cost
SolverOptionsSet ==
    [use_ldlt : BOOLEAN, H_is_full : BOOLEAN, check_min_H_diag : {0},
     grad_clipping : {0}, use_squared_norm : {TRUE}, downscale_by_2 : {FALSE},
     normalize : {FALSE}]
    \cup [use_ldlt : {TRUE}, H_is_full : {TRUE}, check_min_H_diag : {1},
          grad_clipping : {0}, use_squared_norm : {TRUE},
          downscale_by_2 : {FALSE}, normalize : {FALSE}]
    \cup [use_ldlt : {TRUE}, H_is_full : {TRUE}, check_min_H_diag : {0},
          grad_clipping : {2}, use_squared_norm : {TRUE},
          downscale_by_2 : {FALSE}, normalize : {FALSE}]
    \cup [use_ldlt : {TRUE}, H_is_full : {TRUE}, check_min_H_diag : {0},
          grad_clipping : {0}, use_squared_norm : {FALSE},
          downscale_by_2 : {TRUE}, normalize : {FALSE, TRUE}]

\* an optional step: std::nullopt, or a vector
NullOpt == [some |-> FALSE, value |-> <<>>]
Some(v) == [some |-> TRUE, value |-> v]

\* what a residuals function returns: a scalar, a pair (cost, count) or a
\* vector of residuals
Scalar(c) == [shape |-> "scalar", cost |-> c, count |-> 1, res |-> <<>>]
Pair(c, n) == [shape |-> "pair", cost |-> c, count |-> n, res |-> <<>>]
Vector(r) == [shape |-> "vector", cost |-> Fin(0), count |-> 0, res |-> r]

\* GetAccFunc: the pair (cost, number of residuals) made of what the residuals
\* function returned
GetAccFunc(output) ==
    IF output.shape = "scalar" THEN [cost |-> output.cost, count |-> 1]
    ELSE IF output.shape = "pair"
         THEN [cost |-> output.cost, count |-> output.count]
    ELSE [cost |-> Norm(output.res), count |-> Len(output.res)]

\* the normalisation of the cost in Accumulate
NormalizeErr(o, e, ne) ==
    LET e1 == IF ~o.use_squared_norm THEN Sqrt(e) ELSE e
        e2 == IF o.downscale_by_2 THEN Div(e1, Fin(2)) ELSE e1
    IN  IF o.normalize /\ ne > 0 THEN Div(e2, Fin(ne)) ELSE e2

\* the buffers after the residuals function ran: it assigns every coefficient
\* of the gradient and of the Hessian ("set") or none of them ("none")
ApplyWrites(H, g, w) ==
    IF w.mode = "set" THEN [H |-> w.H, grad |-> w.grad] ELSE [H |-> H, grad |-> g]

\* Accumulate(x, res_func): the buffers, err_, nerr_ and the value returned
Accumulate(o, H, g, w) ==
    LET b == ApplyWrites(H, g, w)
        c == GetAccFunc(w.output)
    IN  [H |-> b.H, grad |-> b.grad, err_ |-> NormalizeErr(o, c.cost, c.count),
         nerr_ |-> c.count, cost |-> c.cost, ret |-> c.count > 0]

\* an Evaluate that stores the cost and the count whatever save is
Evaluate_AlwaysSaves(o, err, nerr, output, save) ==
    LET c == GetAccFunc(output)
    IN  [err_ |-> NormalizeErr(o, c.cost, c.count), nerr_ |-> c.count,
         e |-> NormalizeErr(o, c.cost, c.count)]

\* Scalar Evaluate(x, res_func, save): res_func is called without the
\* buffers of the solver (nullptr, or a dummy Hessian); err and nerr are
\* err_ and nerr_ before the call, e is the value returned
Evaluate(o, err, nerr, output, save) ==
    LET c == GetAccFunc(output)
    IN  [err_ |-> IF save THEN NormalizeErr(o, c.cost, c.count) ELSE err,
         nerr_ |-> IF save THEN c.count ELSE nerr,
         e |-> NormalizeErr(o, c.cost, c.count)]

\* a buffer right after Eigen allocated it: every coefficient holds junk
JunkVec(n, junk) == [i \in 1..n |-> junk]
JunkMat(n, junk) == [i \in 1..n |-> [j \in 1..n |-> junk]]

\* bool resize(int dims), of the dynamically sized solver: n is dims
resize(H, g, n, junk) ==
    IF Len(g) # n \/ Len(H) # n
    THEN [H |-> IF Len(H) # n THEN JunkMat(n, junk) ELSE H,
          grad |-> IF Len(g) # n THEN JunkVec(n, junk) ELSE g]
    ELSE [H |-> H, grad |-> g]

\* bool ResizeIfNeeded(const X_t &x): n is dims(x)
ResizeIfNeeded(H, g, n, junk) ==
    IF Len(g) # n THEN resize(H, g, n, junk) ELSE [H |-> H, grad |-> g]

\* a clear() that leaves the buffers as they are
clear_NoOp(H, g) == [H |-> H, grad |-> g]

\* void clear()
clear(H, g) ==
    [H |-> [i \in 1..Len(H) |-> [j \in 1..Len(H[i]) |-> Fin(0)]],
     grad |-> ZeroVec(Len(g))]

\* SolverBase::Clamp(g, minmax)
Clamp(g, minmax) ==
    IF minmax = 0 THEN g
    ELSE [i \in 1..Len(g) |->
            IF Lt(g[i], Fin(-minmax)) THEN Fin(-minmax)
            ELSE IF Gt(g[i], Fin(minmax)) THEN Fin(minmax) ELSE g[i]]

\* (H_.diagonal().cwiseAbs().array() < min).any()
LowDiagonal(H, min) == \E i \in 1..Len(H) : Lt(Abs(H[i][i]), Fin(min))

\* bool Build(x, res_func, resize_and_clear): n is dims(x), w what res_func
\* returns and writes, junk what a new buffer holds.  The result holds the
\* buffers handed to res_func (pre_H, pre_grad), those after Build, err_,
\* nerr_, the cost of the adapter and the value returned
Build(o, H, g, n, w, resize_and_clear, junk) ==
    LET z == ResizeIfNeeded(H, g, n, junk)
        pre == IF resize_and_clear THEN clear(z.H, z.grad)
               ELSE [H |-> H, grad |-> g]
        a == Accumulate(o, pre.H, pre.grad, w)
        clamped == Clamp(a.grad, o.grad_clipping)
        base == [pre_H |-> pre.H, pre_grad |-> pre.grad, H |-> a.H,
                 grad |-> a.grad, err_ |-> a.err_, nerr_ |-> a.nerr_,
                 cost |-> a.cost, ret |-> FALSE]
    IN  IF ~a.ret THEN base
        ELSE IF o.check_min_H_diag > 0 /\ LowDiagonal(a.H, o.check_min_H_diag)
        THEN [base EXCEPT !.grad = clamped]
        ELSE [base EXCEPT !.grad = clamped, !.ret = TRUE,
                          !.H = IF ~o.H_is_full /\ ~o.use_ldlt
                                THEN FillLower(a.H) ELSE a.H]

\* tinyopt::SolveLDLT(H, grad): the solution of H x = grad by the LDLT
\* factorization of the upper triangle of H, or nothing when H is not
\* positive
SolveLDLT(H, g) ==
    IF LdltIsPositive(H) THEN Some(LdltSolve(H, g)) ELSE NullOpt

\* a Solve() that does not look at nerr_
Solve_NoResidualCheck(o, H, g, nerr) ==
    IF o.use_ldlt
    THEN LET dx == SolveLDLT(H, g)
         IN  IF dx.some THEN Some(NegVec(dx.value)) ELSE NullOpt
    ELSE Some(NegVec(InverseTimes(H, g)))

\* std::optional<Vector> Solve() const, of the dynamically sized solver
Solve(o, H, g, nerr) ==
    IF nerr = 0 THEN NullOpt
    ELSE IF o.use_ldlt
         THEN LET dx == SolveLDLT(H, g)
              IN  IF dx.some THEN Some(NegVec(dx.value)) ELSE NullOpt
    ELSE Some(NegVec(InverseTimes(H, g)))

\* the Hessians a residuals function writes: of dimension 1; of dimension 2
\* with pivots 1, -1 and 0, the coefficient below the diagonal being 0 (not
\* written), the one above the diagonal, or another value; and, for the
\* explicit inverse, the matrix (2 1; . 1)
Mat2(a, b, c, d) == << <<Fin(a), Fin(b)>>, <<Fin(c), Fin(d)>> >>

Hessians(n, use_ldlt) ==
    IF n = 1 THEN {<< <<Fin(h)>> >> : h \in {-1, 0, 1}}
    ELSE {Mat2(1, 1, c, 1) : c \in {0, 1, 2}}
         \cup {Mat2(1, 0, 0, 1), Mat2(0, 0, 0, 0), Mat2(-1, 0, 0, -1)}
         \cup (IF use_ldlt THEN {} ELSE {Mat2(2, 1, c, 1) : c \in {0, 1, 3}})

\* the gradients it writes: one with every Hessian, and one, that the
\* clipping changes, with the identity
Gradients(n) ==
    IF n = 1 THEN {<<Fin(g)>> : g \in {2, 4}}
    ELSE {<<Fin(2), Fin(0)>>, <<Fin(0), Fin(4)>>}

Systems(n, use_ldlt) ==
    [H : Hessians(n, use_ldlt),
     grad : {IF n = 1 THEN <<Fin(2)>> ELSE <<Fin(2), Fin(0)>>}]
    \cup [H : {IF n = 1 THEN << <<Fin(1)>> >> ELSE Mat2(1, 0, 0, 1)},
          grad : Gradients(n)]

\* the values it returns: a cost, a cost with a count, residuals
Returns ==
    {Scalar(Fin(c)) : c \in {0, 16}}
    \cup {Pair(Fin(0), 0)} \cup {Pair(Fin(16), k) : k \in {0, 1, 2}}
    \cup {Vector(<<>>), Vector(<<Fin(0)>>), Vector(<<Fin(16)>>),
          Vector(<<Fin(0), Fin(16)>>)}

\* one call of a residuals function on an x of dimension n that writes
\* nothing, or one system
WritesNothing == [output : {Scalar(Fin(16))}, mode : {"none"}, H : {<<>>}, grad : {<<>>}]
WritesOne(n) ==
    [output : {Scalar(Fin(16))}, mode : {"set"},
     H : {IF n = 1 THEN << <<Fin(1)>> >> ELSE Mat2(1, 1, 0, 1)},
     grad : {IF n = 1 THEN <<Fin(2)>> ELSE <<Fin(2), Fin(0)>>}]

\* one call of a residuals function on an x of dimension n: every return
\* value with one system written, and every system, or none, with one
\* return value; on buffers that Build did not clear, one system or none
SolverEvalOutputs(n, use_ldlt, resize_and_clear) ==
    IF ~resize_and_clear THEN WritesNothing \cup WritesOne(n)
    ELSE [output : Returns, mode : {"set"},
          H : {IF n = 1 THEN << <<Fin(1)>> >> ELSE Mat2(1, 0, 0, 1)},
          grad : {IF n = 1 THEN <<Fin(2)>> ELSE <<Fin(2), Fin(0)>>}]
         \cup {[output |-> Scalar(Fin(16)), mode |-> "set", H |-> s.H,
                 grad |-> s.grad] : s \in Systems(n, use_ldlt)}
         \cup WritesNothing

\* what the residuals function returns to Evaluate: a cost that no Build of
\* the model stores, or no residuals
EvaluateReturns == {Scalar(Fin(64)), Vector(<<>>)}

\* the gradient and the Hessian a caller hands to InitWith
InitGradient(n) == IF n = 1 THEN <<Fin(4)>> ELSE <<Fin(0), Fin(4)>>
InitHessian(n) == IF n = 1 THEN << <<Fin(1)>> >> ELSE Mat2(1, 1, 2, 1)

\* what a new buffer may hold; Build allocates one when the dimension of x
\* is not that of grad_
Junk == {Fin(0), Fin(1)}
JunkOf(n) == IF Len(grad_) # n THEN Junk ELSE {Fin(0)}
JunkOfResize(n) == IF Len(grad_) # n \/ Len(H_) # n THEN Junk ELSE {Fin(0)}

\* the dimensions of x
SolverDims == {1, 2}

\* every coefficient of the Hessian and of the gradient is 0
IsZero(H, g) ==
    /\ \A i \in 1..Len(g) : g[i] = Fin(0)
    /\ \A i \in 1..Len(H) : \A j \in 1..Len(H[i]) : H[i][j] = Fin(0)

\* s_last before the first call.  s_last describes the latest call: the
\* operation, the arguments of the latest Build (stale: the buffers it was
\* called on held a coefficient that is not 0), the buffers handed to the
\* residuals function, the cost and count of the adapter, the value Build
\* returned, the step of the latest Solve, and the calls since that Build:
\* whether Solve ran, whether Evaluate ran, whether Solve ran again after
\* both, the save argument of the latest Evaluate and whether an Evaluate
\* stored its cost
NoCall ==
    [op |-> "none", built |-> FALSE, n |-> 0, resize_and_clear |-> TRUE,
     w |-> [output |-> Scalar(Fin(0)), mode |-> "none", H |-> <<>>, grad |-> <<>>],
     stale |-> FALSE, pre_H |-> <<>>, pre_grad |-> <<>>,
     cost |-> Fin(0), count |-> 0, ret |-> FALSE, dx |-> NullOpt,
     solved |-> FALSE, evaluated |-> FALSE, resolved |-> FALSE,
     save |-> FALSE, saved |-> FALSE]

\* the solver of a run of GN: gn.h has none
SolverIdle ==
    /\ options_ = [use_ldlt |-> TRUE, H_is_full |-> TRUE, check_min_H_diag |-> 0,
                   grad_clipping |-> 0, use_squared_norm |-> TRUE,
                   downscale_by_2 |-> FALSE, normalize |-> FALSE]
    /\ H_ = <<>>
    /\ grad_ = <<>>
    /\ err_ = Fin(0)
    /\ nerr_ = 0
    /\ s_last = NoCall


-----------------------------------------------------------------------------
(* lm::Optimize with a wall-clock budget *)

\* largest options.num_iters of a timed run
MaxTimedIters == 3

\* the options a timed run reads: max_duration_ms (0: no budget), num_iters
\* and the minimum error (0: no test)
LmOptionsSet ==
    [max_duration_ms : {0, 1, 2, 3}, num_iters : 1..MaxTimedIters,
     min_error : {0, 1}]

\* the milliseconds one call of the evaluator takes
Delays == {0, 1, 2}

\* the costs of the first evaluation
FirstCosts == {2, 4}

\* the output before the first iteration
LmInitOut(c) == [num_iters |-> 0, stop_reason |-> "kMaxIters", last_err |-> c]

\* Succeeded(): the stop reason is not a fatal one
LmSucceeded(o) ==
    o.stop_reason \notin {"kSystemHasNaNOrInf", "kSkipped", "kSolverFailed"}

\* a check of the stop reasons that tests the error before the time
LmStopCheck_ErrorFirst(opts, elapsed, err) ==
    IF opts.min_error > 0 /\ err < opts.min_error THEN "kMinError"
    ELSE IF opts.max_duration_ms > 0 /\ elapsed > opts.max_duration_ms
    THEN "kTimedOut"
    ELSE "none"

\* the stop reasons tested at the end of an iteration, in their order: the
\* wall-clock budget is exceeded, the error is below its minimum
LmStopCheck(opts, elapsed, err) ==
    IF opts.max_duration_ms > 0 /\ elapsed > opts.max_duration_ms
    THEN "kTimedOut"
    ELSE IF opts.min_error > 0 /\ err < opts.min_error THEN "kMinError"
    ELSE "none"

\* lm_h before the first iteration
LmNoHistory == [calls |-> 0, checks |-> 0, overrun |-> 0]

\* no run of lm::Optimize
LmIdle ==
    /\ lm_options = [max_duration_ms |-> 0, num_iters |-> 1, min_error |-> 0]
    /\ lm_elapsed = 0
    /\ lm_out = LmInitOut(0)
    /\ lm_pc = "idle"
    /\ lm_h = LmNoHistory
-----------------------------------------------------------------------------
(* The state machine *)

\* h_iter before the first pass
NoIter == [kind |-> "none", solve |-> "none", nerr |-> 1, err |-> Fin(0),
           H |-> <<>>, grad |-> <<>>, dX |-> <<>>, x_before |-> <<>>,
           best_cost_before |-> Fin(FltMax), last_err2_before |-> Fin(FltMax), num_iters_before |-> 0,
           num_failures_before |-> 0, num_consec_failures_before |-> 0,
           successes_before |-> 0, rejected |-> 0, consec_rejected |-> 0,
           test_loss |-> TRUE]

\* GN up to the first test of the loop condition; X is a double, or a VecX
\* that is empty
Start(o, x) ==
    /\ options = o
    /\ X = x
    /\ X_last_good = x
    /\ already_rolled_true = TRUE
    /\ out = InitOut(dims(x), o)
    /\ pc = "loop"
    /\ h_calls = 0
    /\ h_entry = x
    /\ h_pre_step = x
    /\ h_best = x
    /\ h_best_cost = Fin(FltMax)
    /\ h_iter = NoIter
    /\ h_seen = {}
    /\ SolverIdle
    /\ LmIdle
    /\ TraitIdle

\* GN entered with some options of the model and an X of dimension 0 or 1
Init ==
    \E o \in OptionsSet, empty \in BOOLEAN :
        Start(o, IF empty THEN <<>> ELSE <<Fin(1)>>)

\* one pass through the body of the loop, r being what acc(X, JtJ, Jt_res)
\* returned and left in JtJ and Jt_res
Iteration(r) ==
    /\ pc = "loop"
    /\ out.num_iters < options.num_iters + 1
    /\ LET skip_solver == r.nerr = 0
           \* if (nerr == 0) { emplace_back ... }
           out1 == IF r.nerr = 0
                   THEN [out EXCEPT !.num_residuals = r.nerr,
                                    !.errs2 = Append(@, Fin(0)),
                                    !.deltas2 = Append(@, Fin(0)),
                                    !.successes = Append(@, FALSE)]
                   ELSE [out EXCEPT !.num_residuals = r.nerr]
           s == SolveSystem(options, r.H, r.grad, skip_solver, out1)
           out2 == [out1 EXCEPT !.num_consec_failures = s.num_consec_failures,
                                !.num_failures = s.num_failures]
           dX_norm2 == IF s.solver_failed THEN Fin(0) ELSE SquaredNorm(s.dX)
           Jt_res_norm2 == IF options.min_grad_norm2 = 0 THEN Fin(0)
                           ELSE SquaredNorm(r.grad)
           derr_negative == DerrNegative(r.err, out.last_err2)
           good == GoodStep(derr_negative, s.solver_failed)
           out3 == [out2 EXCEPT !.errs2 = Append(@, ToFloat(r.err)),
                                !.deltas2 = Append(@, ToFloat(dX_norm2)),
                                !.successes = Append(@, good)]
           rb == RollBack(X, X_last_good, already_rolled_true)
           out4 == IF good
                   THEN [out3 EXCEPT !.last_err2 = ToFloat(r.err),
                                     !.last_JtJ = IF options.export_JtJ
                                                  THEN r.H ELSE @,
                                     !.num_consec_failures = 0]
                   ELSE [out3 EXCEPT !.num_failures = Inc8(@),
                                     !.num_consec_failures = Inc8(@)]
           stop == StopCheck(options, good, out4.num_consec_failures,
                             out4.num_failures, FALSE, s.solver_failed,
                             dX_norm2, Jt_res_norm2)
           h == [kind |-> "none", solve |-> s.solve, nerr |-> r.nerr,
                 err |-> r.err, H |-> r.H, grad |-> r.grad, dX |-> s.dX,
                 x_before |-> X, best_cost_before |-> h_best_cost,
                 last_err2_before |-> out.last_err2,
                 num_iters_before |-> out.num_iters,
                 num_failures_before |-> out.num_failures,
                 num_consec_failures_before |-> out.num_consec_failures,
                 successes_before |-> Len(out.successes),
                 rejected |-> h_iter.rejected,
                 consec_rejected |-> h_iter.consec_rejected,
                 test_loss |-> h_iter.test_loss /\ IsTestLoss(X, r)]
       IN  /\ h_calls' = h_calls + 1
           /\ UNCHANGED <<options, h_entry, solverVars, lmVars, traitVars>>
           /\ IF r.nerr = 0 /\ out.num_iters = 0
              THEN \* no residuals the first time: kNoResiduals, break
                   /\ out' = [out1 EXCEPT !.stop_reason = "kNoResiduals"]
                   /\ pc' = "done"
                   /\ h_iter' = [h EXCEPT !.kind = "nores_first", !.solve = "nores",
                                          !.dX = ZeroVec(Len(r.grad))]
                   /\ UNCHANGED <<X, X_last_good, already_rolled_true,
                                  h_pre_step, h_best, h_best_cost>>
              ELSE IF IsNaN(dX_norm2)
              THEN \* system_has_nans = true; break
                   /\ out' = out2
                   /\ pc' = "done"
                   /\ h_iter' = [h EXCEPT !.kind = "nan_break"]
                   /\ UNCHANGED <<X, X_last_good, already_rolled_true,
                                  h_pre_step, h_best, h_best_cost>>
              ELSE IF good
              THEN \* GOOD step
                   /\ X_last_good' = Commit(X, X_last_good, out.num_iters)
                   /\ X' = pluseq(X, s.dX)
                   /\ already_rolled_true' = FALSE
                   /\ h_pre_step' = X
                   /\ h_best' = X
                   /\ h_best_cost' = r.err
                   /\ h_iter' = [h EXCEPT !.kind = "good", !.consec_rejected = 0]
                   /\ IF stop # "none"
                      THEN /\ out' = [out4 EXCEPT !.stop_reason = stop]
                           /\ pc' = "done"
                      ELSE /\ out' = [out4 EXCEPT !.num_iters = Inc16(@)]
                           /\ pc' = "loop"
              ELSE \* BAD step
                   /\ X' = rb.X
                   /\ already_rolled_true' = rb.already_rolled_true
                   /\ h_iter' = [h EXCEPT !.kind = "bad", !.rejected = @ + 1,
                                          !.consec_rejected = @ + 1]
                   /\ UNCHANGED <<X_last_good, h_pre_step, h_best, h_best_cost>>
                   /\ IF stop # "none"
                      THEN /\ out' = [out4 EXCEPT !.stop_reason = stop]
                           /\ pc' = "done"
                      ELSE /\ out' = [out4 EXCEPT !.num_iters = Inc16(@)]
                           /\ pc' = "loop"

\* the loop condition fails: return out
Return ==
    /\ pc = "loop"
    /\ ~(out.num_iters < options.num_iters + 1)
    /\ pc' = "done"
    /\ UNCHANGED <<options, X, X_last_good, already_rolled_true, out,
                   h_calls, h_entry, h_pre_step, h_best, h_best_cost, h_iter,
                   h_seen, solverVars, lmVars, traitVars>>

\* acc is any caller-supplied function, with state of its own: what it
\* returns at an X is not tied to what it returned there before
Next == (\E r \in EvalOutputs(dims(X)) : Iteration(r) /\ UNCHANGED h_seen) \/ Return

Spec == Init /\ [][Next]_vars

\* GN with an acc that is a pure function of X: a call at an X where acc was
\* called before returns and writes what it did then
PureOptionsSet ==
    [ldlt : BOOLEAN, JtJ_is_full : {TRUE}, num_iters : {MaxIters},
     min_delta_norm2 : {0}, min_grad_norm2 : Thresholds,
     max_total_failures : {0}, max_consec_failures : {0, 3},
     export_JtJ : {TRUE}]

PureInit == \E o \in PureOptionsSet : Start(o, <<Fin(1)>>)

\* r is what a pure acc may return at x, given what it returned so far
PureAt(x, r) == \A p \in h_seen : p[1] = x => p[2] = r

PureIteration(r) ==
    /\ PureAt(X, r)
    /\ Iteration(r)
    /\ h_seen' = h_seen \cup {<<X, r>>}

PureNext == (\E r \in EvalOutputs(dims(X)) : PureIteration(r)) \/ Return

PureSpec == PureInit /\ [][PureNext]_vars

\* GN with the caps and the thresholds disabled, num_iters 0 or the largest
\* a uint16_t holds, and an acc that returns the same cost and writes the
\* same system at every X; a run is followed for MaxPasses passes
LongOptionsSet ==
    [ldlt : {TRUE}, JtJ_is_full : {TRUE}, num_iters : {0, 65535},
     min_delta_norm2 : {0}, min_grad_norm2 : {0},
     max_total_failures : {0}, max_consec_failures : {0},
     export_JtJ : {TRUE}]

SteadyOutput ==
    [err |-> Fin(1), nerr |-> 1, H |-> << <<Fin(1)>> >>, grad |-> <<Fin(0)>>]

LongInit == \E o \in LongOptionsSet : Start(o, <<Fin(1)>>)

LongIteration ==
    /\ h_calls < MaxPasses
    /\ Iteration(SteadyOutput)
    /\ UNCHANGED h_seen

LongNext == LongIteration \/ Return

LongSpec == LongInit /\ [][LongNext]_vars

-----------------------------------------------------------------------------
(* The state machine of a SolverGN<MatX> *)

\* no run of GN
GNIdle ==
    /\ options = DefaultOptions
    /\ X = <<>>
    /\ X_last_good = <<>>
    /\ already_rolled_true = TRUE
    /\ out = InitOut(0, DefaultOptions)
    /\ pc = "idle"
    /\ h_calls = 0
    /\ h_entry = <<>>
    /\ h_pre_step = <<>>
    /\ h_best = <<>>
    /\ h_best_cost = Fin(FltMax)
    /\ h_iter = NoIter
    /\ h_seen = {}

\* explicit SolverGN(const Options &options): the buffers are empty; err_ and
\* nerr_ are not read before the first Build
SolverInit ==
    /\ GNIdle
    /\ LmIdle
    /\ TraitIdle
    /\ options_ \in SolverOptionsSet
    /\ H_ = <<>>
    /\ grad_ = <<>>
    /\ err_ = Fin(0)
    /\ nerr_ = 0
    /\ s_last = NoCall

\* solver.InitWith(g, h).  Evaluate touches neither buffer and Build
\* overwrites err_ and nerr_: after an Evaluate the calls followed are Solve
\* and Evaluate
CallInitWith(g, h) ==
    /\ ~s_last.evaluated
    /\ grad_' = g
    /\ H_' = h
    /\ s_last' = [NoCall EXCEPT !.op = "InitWith", !.built = s_last.built]
    /\ UNCHANGED <<options_, err_, nerr_, gnVars, lmVars, traitVars>>

\* solver.reset()
CallReset ==
    /\ ~s_last.evaluated
    /\ H_' = clear(H_, grad_).H
    /\ grad_' = clear(H_, grad_).grad
    /\ s_last' = [NoCall EXCEPT !.op = "reset", !.built = s_last.built]
    /\ UNCHANGED <<options_, err_, nerr_, gnVars, lmVars, traitVars>>

\* solver.resize(dims)
CallResize(n, junk) ==
    /\ ~s_last.evaluated
    /\ H_' = resize(H_, grad_, n, junk).H
    /\ grad_' = resize(H_, grad_, n, junk).grad
    /\ s_last' = [NoCall EXCEPT !.op = "resize", !.built = s_last.built]
    /\ UNCHANGED <<options_, err_, nerr_, gnVars, lmVars, traitVars>>

\* solver.Build(x, res_func, resize_and_clear), x of dimension n; without
\* resize_and_clear the caller has buffers of the dimension of x.  A
\* residuals function that writes a system of dimension n into a Hessian of
\* another dimension writes out of bounds: such a call is not followed
CallBuild(n, w, resize_and_clear, junk) ==
    /\ ~s_last.evaluated
    /\ resize_and_clear \/ (Len(grad_) = n /\ Len(H_) = n)
    /\ w.mode = "set" => Len(ResizeIfNeeded(H_, grad_, n, junk).H) = n
    /\ LET b == Build(options_, H_, grad_, n, w, resize_and_clear, junk)
       IN  /\ H_' = b.H
           /\ grad_' = b.grad
           /\ err_' = b.err_
           /\ nerr_' = b.nerr_
           /\ s_last' = [op |-> "Build", built |-> TRUE, n |-> n,
                         resize_and_clear |-> resize_and_clear, w |-> w,
                         stale |-> ~IsZero(H_, grad_),
                         pre_H |-> b.pre_H, pre_grad |-> b.pre_grad,
                         cost |-> b.cost, count |-> b.nerr_, ret |-> b.ret,
                         dx |-> NullOpt, solved |-> FALSE,
                         evaluated |-> FALSE, resolved |-> FALSE,
                         save |-> FALSE, saved |-> FALSE]
    /\ UNCHANGED <<options_, gnVars, lmVars, traitVars>>

\* solver.Evaluate(x, res_func, save), after a Build
CallEvaluate(output, save) ==
    /\ s_last.built
    /\ s_last.op \in {"Build", "Solve", "Evaluate"}
    /\ err_' = Evaluate(options_, err_, nerr_, output, save).err_
    /\ nerr_' = Evaluate(options_, err_, nerr_, output, save).nerr_
    /\ s_last' = [s_last EXCEPT !.op = "Evaluate", !.evaluated = TRUE,
                                !.save = save, !.saved = @ \/ save,
                                !.solved = @ /\ ~save,
                                !.resolved = @ /\ ~save]
    /\ UNCHANGED <<options_, H_, grad_, gnVars, lmVars, traitVars>>

\* solver.Solve(), after a Build; on a gradient and a Hessian of two
\* dimensions the product is out of bounds: such a call is not followed
CallSolve ==
    /\ s_last.built
    /\ s_last.op \in {"Build", "Solve", "Evaluate"}
    /\ Len(H_) = Len(grad_)
    /\ s_last' = [s_last EXCEPT !.op = "Solve",
                                !.dx = Solve(options_, H_, grad_, nerr_),
                                !.solved = TRUE,
                                !.resolved = @ \/ (s_last.solved
                                                     /\ s_last.evaluated)]
    /\ UNCHANGED <<options_, H_, grad_, err_, nerr_, gnVars, lmVars, traitVars>>

SolverNext ==
    \/ \E n, m \in SolverDims : CallInitWith(InitGradient(n), InitHessian(m))
    \/ CallReset
    \/ \E n \in SolverDims : \E junk \in JunkOfResize(n) : CallResize(n, junk)
    \/ \E output \in EvaluateReturns, save \in BOOLEAN : CallEvaluate(output, save)
    \/ \E n \in SolverDims, resize_and_clear \in BOOLEAN :
         \E junk \in JunkOf(n) :
            \E w \in SolverEvalOutputs(n, options_.use_ldlt, resize_and_clear) :
               CallBuild(n, w, resize_and_clear, junk)
    \/ CallSolve

SolverSpec == SolverInit /\ [][SolverNext]_vars

-----------------------------------------------------------------------------
(* The state machine of lm::Optimize with a wall-clock budget *)

\* the entry of lm::Optimize: the clock starts
LmInit ==
    /\ GNIdle
    /\ SolverIdle
    /\ TraitIdle
    /\ lm_options \in LmOptionsSet
    /\ lm_elapsed = 0
    /\ lm_out \in {LmInitOut(c) : c \in FirstCosts}
    /\ lm_pc = "loop"
    /\ lm_h = LmNoHistory

\* one iteration: the evaluator is called once and takes d milliseconds, the
\* step lowers the cost by dec (a cost is not negative), and the stop
\* reasons are tested once the iteration is complete
LmIteration(d, dec) ==
    /\ lm_pc = "loop"
    /\ lm_out.num_iters < lm_options.num_iters
    /\ dec <= lm_out.last_err
    /\ LET elapsed == lm_elapsed + d
           err == lm_out.last_err - dec
           stop == LmStopCheck(lm_options, elapsed, err)
           over == lm_options.max_duration_ms > 0
                      /\ elapsed > lm_options.max_duration_ms
       IN  /\ lm_elapsed' = elapsed
           /\ lm_out' = [num_iters |-> lm_out.num_iters + 1,
                         stop_reason |-> IF stop = "none" THEN lm_out.stop_reason
                                         ELSE stop,
                         last_err |-> err]
           /\ lm_pc' = IF stop = "none" THEN "loop" ELSE "done"
           /\ lm_h' = [calls |-> lm_h.calls + 1, checks |-> lm_h.checks + 1,
                       overrun |-> IF lm_h.overrun = 0 /\ over
                                   THEN lm_out.num_iters + 1 ELSE lm_h.overrun]
    /\ UNCHANGED <<lm_options, gnVars, solverVars,
                   traitVars>>

\* the iteration budget is exhausted
LmReturn ==
    /\ lm_pc = "loop"
    /\ lm_out.num_iters >= lm_options.num_iters
    /\ lm_pc' = "done"
    /\ UNCHANGED <<lm_options, lm_elapsed, lm_out, lm_h, gnVars, solverVars,
                   traitVars>>

LmNext ==
    \/ \E d \in Delays, dec \in {0, 1} : LmIteration(d, dec)
    \/ LmReturn

LmSpec == LmInit /\ [][LmNext]_vars

\* a parameter type, an object of it, and the calls of its trait
TraitInit ==
    /\ GNIdle
    /\ SolverIdle
    /\ LmIdle
    /\ tr_T \in ParamTypes
    /\ tr_v \in Objects(tr_T)
    /\ tr_last = NoTraitCall

\* params_trait<T>::dims(v)
CallDims ==
    /\ tr_last' = [tr_last EXCEPT !.op = "dims",
                                  !.dims = params_trait_dims(tr_T, tr_v)]
    /\ UNCHANGED <<tr_T, tr_v, gnVars, solverVars, lmVars>>

\* params_trait<T>::pluseq(v, delta), delta of n coefficients: the shape of
\* v stays
CallPluseq(n) ==
    /\ PluseqDefined(tr_T, tr_v, n)
    /\ tr_last' = [tr_last EXCEPT !.op = "pluseq", !.delta = n]
    /\ UNCHANGED <<tr_T, tr_v, gnVars, solverVars, lmVars>>

TraitNext ==
    \/ CallDims
    \/ \E n \in DeltaSizes(tr_T) : CallPluseq(n)

TraitSpec == TraitInit /\ [][TraitNext]_vars

-----------------------------------------------------------------------------
(* Properties of a run of GN *)

\* a pass through the loop has run; h_iter describes the latest one
Ran == h_iter.kind # "none"

\* some coefficient of the vector is an infinity or a NaN
HasNonFinite(v) == \E i \in 1..Len(v) : ~IsFin(v[i])

\* acc left an infinity or a NaN in the gradient or in the Hessian
NonFiniteSystem ==
    HasNonFinite(h_iter.grad) \/ \E i \in 1..Len(h_iter.H) : HasNonFinite(h_iter.H[i])

\* the three per-iteration vectors of the output hold nothing
EmptyHistories == out.errs2 = <<>> /\ out.deltas2 = <<>> /\ out.successes = <<>>

\* C1: when acc leaves a NaN or an infinity in the gradient or the Hessian,
\* the run stops in that pass with kSystemHasNaNs, Succeeded() and
\* Converged() are false and X is what it was before the pass.
C1_NonFiniteSystemStops ==
    (Ran /\ h_iter.nerr > 0 /\ NonFiniteSystem)
        => /\ pc = "done"
           /\ out.stop_reason = "kSystemHasNaNs"
           /\ ~Succeeded(out)
           /\ ~Converged(out)
           /\ X = h_iter.x_before

\* C2: when acc returns a cost that is a NaN or an infinity, the gradient and
\* the Hessian being finite, the run stops in that pass with kSystemHasNaNs
\* and Succeeded() is false.
C2_NonFiniteCostStops ==
    (Ran /\ h_iter.nerr > 0 /\ ~IsFin(h_iter.err) /\ ~NonFiniteSystem)
        => /\ pc = "done"
           /\ out.stop_reason = "kSystemHasNaNs"
           /\ ~Succeeded(out)

\* C3: when the first call of acc reports no residuals, the run ends with
\* kNoResiduals, Succeeded() and Converged() are false, num_iters <= 1, X is
\* unchanged and the three per-iteration vectors are empty.
C3_NoResidualsFirstCall ==
    (Ran /\ h_calls = 1 /\ h_iter.nerr = 0)
        => /\ pc = "done"
           /\ out.stop_reason = "kNoResiduals"
           /\ ~Succeeded(out)
           /\ ~Converged(out)
           /\ out.num_iters <= 1
           /\ X = h_entry
           /\ EmptyHistories

\* C4: when the dimension of X is 0, acc is never called and the run ends
\* with kNoResiduals, Succeeded() false, empty per-iteration vectors and
\* num_iters <= 1.
C4_EmptyXSkipped ==
    dims(h_entry) = 0
        => /\ h_calls = 0
           /\ pc = "done" => /\ out.stop_reason = "kNoResiduals"
                             /\ ~Succeeded(out)
                             /\ EmptyHistories
                             /\ out.num_iters <= 1

\* C5: after every pass that records the accept flag false, X is the value it
\* had right before the latest step was applied to it (the entry value when
\* no step was applied).
C5_RejectedStepRestoresX ==
    h_iter.kind \in {"bad", "nores_first"}
        => /\ out.successes[Len(out.successes)] = FALSE
           /\ X = h_pre_step

\* C5 witness: a pass is rejected after two accepted ones, and X goes back to
\* the value of before the second step, which is neither the entry value nor
\* the value the pass started from.
C5_Witness ==
    /\ h_iter.kind = "bad"
    /\ X = h_pre_step
    /\ X # h_iter.x_before
    /\ X # h_entry

\* C6: when GN has returned, X is the latest point at which acc was called
\* and the cost accepted (the entry value when no cost was accepted): no step
\* remains applied whose cost was not evaluated and accepted.
C6_ReturnedXIsBestFound == pc = "done" => X = h_best

\* C7: a pass accepts its step exactly when the linear solve succeeded and
\* the cost is strictly lower than the last accepted cost; an accepted pass
\* commits X, resets the consecutive-failure counter and records a success
\* flag; a rejected pass rolls X back and increments both failure counters.
C7_AcceptIffSolvedAndLower ==
    h_iter.kind \in {"good", "bad"}
        => /\ h_iter.kind = "good"
                <=> (h_iter.solve = "ok" /\ Lt(h_iter.err, h_iter.best_cost_before))
           /\ h_iter.kind = "good"
                => /\ X_last_good = h_iter.x_before
                   /\ out.num_consec_failures = 0
                   /\ out.successes[Len(out.successes)] = TRUE
           /\ h_iter.kind = "bad"
                => /\ X = h_pre_step
                   /\ out.num_failures > h_iter.num_failures_before
                   /\ out.num_consec_failures > h_iter.num_consec_failures_before

\* the fatal stop reasons
FatalReasons == {"kSystemHasNaNs", "kSolverFailed", "kNoResiduals"}

\* C8: in every output record Succeeded() is false exactly for the fatal stop
\* reasons, Converged() is true only for kMinDeltaNorm and kMinGradNorm, and
\* Converged() implies Succeeded().
C8_SucceededIffNotFatal ==
    /\ out.stop_reason \in StopReasons
    /\ Succeeded(out) <=> out.stop_reason \notin FatalReasons
    /\ Converged(out) => out.stop_reason \in {"kMinDeltaNorm", "kMinGradNorm"}
    /\ Converged(out) => Succeeded(out)

\* C8 witness: a run that ended with a fatal reason, for which Succeeded() is
\* false.
C8_Witness ==
    pc = "done" /\ out.stop_reason = "kSolverFailed" /\ ~Succeeded(out)

\* the stop reason the priority order of C9 gives to the latest pass
C9_FirstReason ==
    IF h_iter.nerr > 0 /\ (NonFiniteSystem \/ HasNonFinite(h_iter.dX))
    THEN "kSystemHasNaNs"
    ELSE IF h_iter.nerr = 0 /\ h_iter.num_iters_before = 0 THEN "kNoResiduals"
    ELSE IF h_iter.solve = "failed" THEN "kSolverFailed"
    ELSE IF options.max_consec_failures > 0
            /\ out.num_consec_failures >= options.max_consec_failures
    THEN "kMaxConsecFails"
    ELSE IF options.max_total_failures > 0
            /\ h_iter.kind = "bad"
            /\ out.num_failures >= options.max_total_failures
    THEN "kMaxFails"
    ELSE IF options.min_delta_norm2 > 0
            /\ Lt(SquaredNorm(h_iter.dX), Fin(options.min_delta_norm2))
    THEN "kMinDeltaNorm"
    ELSE IF options.min_grad_norm2 > 0
            /\ Lt(SquaredNorm(h_iter.grad), Fin(options.min_grad_norm2))
    THEN "kMinGradNorm"
    ELSE "kMaxIters"

\* C9: the stop reason of a run is the first that holds, after its latest
\* pass, in the order: non-finite system, no residuals the first time, solver
\* failed, consecutive failures, total failures, step norm, gradient norm,
\* iterations.
C9_StopReasonPriority == (pc = "done" /\ Ran) => out.stop_reason = C9_FirstReason

\* C10: a run whose latest pass had a failed LDLT factorization ends with
\* kSolverFailed, and Succeeded() is false.
C10_FailedFactorizationIsFatal ==
    (pc = "done" /\ options.ldlt /\ h_iter.solve = "failed")
        => out.stop_reason = "kSolverFailed" /\ ~Succeeded(out)

\* C11: when GN has returned, the three per-iteration vectors have the same
\* length and that length is the reported num_iters: one entry per iteration.
C11_OneHistoryEntryPerIteration ==
    pc = "done"
        => /\ Len(out.errs2) = out.num_iters
           /\ Len(out.deltas2) = out.num_iters
           /\ Len(out.successes) = out.num_iters

\* C12: when GN has returned, num_iters is at most options.num_iters and acc
\* was called at most options.num_iters times; a run that the loop condition
\* ended has the stop reason kMaxIters.
C12_IterationCapIsMaximum ==
    pc = "done"
        => /\ out.num_iters <= options.num_iters
           /\ h_calls <= options.num_iters
           /\ out.num_iters > options.num_iters => out.stop_reason = "kMaxIters"

\* C16: acc is called with the argument order (x, grad, H): in every pass
\* that runs the solver, the step and the success of the solve are those of
\* the system whose matrix is what acc wrote through its third parameter and
\* whose right-hand side is what it wrote through its second.
C16_AccArgumentOrder ==
    (Ran /\ h_iter.solve \in {"ok", "failed"})
        => LET p == AccParams([H |-> h_iter.H, grad |-> h_iter.grad])
               o == [num_consec_failures |-> h_iter.num_consec_failures_before,
                     num_failures |-> h_iter.num_failures_before]
               s == SolveSystem(options, p.H, p.grad, FALSE, o)
           IN  s.solve = h_iter.solve /\ s.dX = h_iter.dX

\* C19: from x = 1, with the default options and the loss of the test
\* (H(0,0) = 1, grad(0) = x - 2, cost |x - 2|), GN returns with Succeeded()
\* and Converged() true, the stop reason kMinGradNorm, 2 to 5 iterations, a
\* final cost of 0 and x = 2.
C19_TestLossConverges ==
    (pc = "done" /\ Ran /\ h_iter.test_loss
        /\ options = DefaultOptions /\ h_entry = <<Fin(1)>>)
        => /\ Succeeded(out)
           /\ Converged(out)
           /\ out.stop_reason = "kMinGradNorm"
           /\ out.num_iters \in 2..5
           /\ out.last_err2 = Fin(0)
           /\ X = <<Fin(2)>>

\* C21: when the diagonal of the accumulated Hessian is low (a loss that
\* forgot to write it) the run ends in the first pass with a failure,
\* Succeeded() false, num_iters at most 1, nothing in the histories and X
\* untouched.
C21_LowDiagonalSkips ==
    (Ran /\ h_calls = 1 /\ h_iter.nerr > 0 /\ ~NonFiniteSystem
        /\ LowDiagonal(h_iter.H, 1))
        => /\ pc = "done"
           /\ ~Succeeded(out)
           /\ out.num_iters <= 1
           /\ EmptyHistories
           /\ X = h_entry

\* the number of passes the output records as rejected
NumRejectedFlags == Cardinality({i \in 1..Len(out.successes) : ~out.successes[i]})

\* C22: no residuals in a pass after the first one is one failed step: the
\* run does not end with kNoResiduals, the pass is recorded once with the
\* flag false, X is the last accepted iterate and each failure counter is one
\* more than before.
C22_LateNoResidualsIsOneFailedStep ==
    (Ran /\ h_iter.nerr = 0 /\ h_iter.num_iters_before > 0)
        => /\ out.stop_reason # "kNoResiduals"
           /\ Len(out.successes) = h_iter.successes_before + 1
           /\ Len(out.errs2) = Len(out.successes)
           /\ ~out.successes[Len(out.successes)]
           /\ X = h_best
           /\ out.num_failures = h_iter.num_failures_before + 1
           /\ out.num_consec_failures = h_iter.num_consec_failures_before + 1

\* the latest pass was accepted or rejected (the loop did not break before
\* the decision)
Decided == h_iter.kind \in {"good", "bad"}

\* the consecutive rejected passes have reached the cap max_consec_failures
ConsecCapReached ==
    options.max_consec_failures > 0
        /\ h_iter.consec_rejected >= options.max_consec_failures

\* the rejected passes have reached the cap max_total_failures
TotalCapReached ==
    options.max_total_failures > 0
        /\ h_iter.rejected >= options.max_total_failures

\* C24: the run stops with kMaxConsecFails exactly in the pass where the
\* consecutive rejected passes reach max_consec_failures > 0, and with
\* kMaxFails exactly in the pass where the rejected passes reach
\* max_total_failures > 0 and the other cap is not reached; a cap of 0 never
\* stops the run, and a run with max_total_failures = t > 0 has at most t
\* rejected passes.
C24_FailureCaps ==
    Decided
        => /\ (pc = "done" /\ out.stop_reason = "kMaxConsecFails")
                  <=> (h_iter.kind = "bad" /\ ConsecCapReached)
           /\ (pc = "done" /\ out.stop_reason = "kMaxFails")
                  <=> (h_iter.kind = "bad" /\ TotalCapReached
                          /\ ~ConsecCapReached)
           /\ ConsecCapReached
                  => h_iter.consec_rejected = options.max_consec_failures
           /\ options.max_total_failures > 0
                  => h_iter.rejected <= options.max_total_failures

\* C27: num_failures is the number of passes whose flag is false,
\* num_consec_failures the number of passes rejected since the last accepted
\* one, the second is at most the first, and a rejected pass, a failed
\* factorization included, adds exactly one to each.
C27_FailureCountersMatchHistory ==
    Decided
        => /\ out.num_failures = h_iter.rejected
           /\ out.num_failures = NumRejectedFlags
           /\ out.num_consec_failures = h_iter.consec_rejected
           /\ out.num_consec_failures <= out.num_failures
           /\ h_iter.kind = "bad"
                  => /\ out.num_failures = h_iter.num_failures_before + 1
                     /\ out.num_consec_failures
                            = h_iter.num_consec_failures_before + 1

\* C26: no counter of the output wraps: a rejected pass leaves each failure
\* counter above what it was, a pass that goes on leaves num_iters above what
\* it was, and a run makes at most options.num_iters + 1 passes.
C26_CountersNeverWrap ==
    /\ h_iter.kind = "bad"
           => /\ out.num_failures > h_iter.num_failures_before
              /\ out.num_consec_failures > h_iter.num_consec_failures_before
    /\ (Decided /\ pc = "loop") => out.num_iters > h_iter.num_iters_before
    /\ h_calls <= options.num_iters + 1

\* C28: with an acc that is a pure function of X, no pass is accepted after
\* a rejected one: the flags are true up to some pass and false from then
\* on, and X does not move from the first rejection on.
C28_RejectionIsFinal ==
    /\ h_iter.kind = "good" => h_iter.rejected = 0
    /\ \A i, j \in 1..Len(out.successes) :
           (i < j /\ ~out.successes[i]) => ~out.successes[j]
    /\ (h_iter.kind = "bad" /\ h_iter.consec_rejected >= 2)
           => X = h_iter.x_before

-----------------------------------------------------------------------------
(* Properties of a SolverGN<MatX> *)

\* a Build has run, no InitWith, resize or reset since, and no Evaluate that
\* stored its cost; s_last describes it
Built == s_last.op \in {"Build", "Solve"} /\ ~s_last.saved

\* C14: the accumulation adapter turns a vector of residuals into its squared
\* norm and its number of elements, hands on a pair (cost, count) as it is,
\* and turns a scalar into that scalar with the count 1.
C14_AdapterNormalises ==
    Built
        => LET output == s_last.w.output
           IN  /\ output.shape = "vector"
                    => /\ s_last.cost = SquaredNorm(output.res)
                       /\ s_last.count = Len(output.res)
               /\ output.shape = "pair"
                    => s_last.cost = output.cost /\ s_last.count = output.count
               /\ output.shape = "scalar"
                    => s_last.cost = output.cost /\ s_last.count = 1

\* the residuals function returned no residuals: an empty vector, or a pair
\* whose count is 0
ReturnedNoResiduals(output) ==
    \/ output.shape = "vector" /\ output.res = <<>>
    \/ output.shape = "pair" /\ output.count = 0

\* C15: the count of the adapter is 0 exactly when the residuals function
\* returned an empty vector or a pair with the count 0; then Build returns
\* false and a Solve that follows returns no step.
C15_NoResidualsStops ==
    Built
        => /\ s_last.count = 0 <=> ReturnedNoResiduals(s_last.w.output)
           /\ nerr_ = s_last.count
           /\ s_last.count = 0 => ~s_last.ret
           /\ (s_last.count = 0 /\ s_last.op = "Solve") => s_last.dx = NullOpt

\* a Solve after a Build that was told of no residuals, on a system that has
\* a solution
C15_Witness ==
    /\ s_last.op = "Solve"
    /\ s_last.w.output = Pair(Fin(16), 0)
    /\ s_last.w.mode = "set"
    /\ options_.use_ldlt
    /\ LdltIsPositive(H_)
    /\ s_last.dx = NullOpt

\* two Hessians of the same dimension that agree on and above the diagonal
SameUpper(A, B) ==
    /\ Len(A) = Len(B)
    /\ \A i \in 1..Len(A) : \A j \in i..Len(A) : A[i][j] = B[i][j]

\* C17: the residuals function only needs to fill the upper triangle of H:
\* in every configuration of the solver, had the latest Build been handed a
\* Hessian that differs from the one written only below the diagonal, Build
\* would have returned the same value and Solve the same step.
C17_UpperTriangleSuffices ==
    (Built /\ s_last.op = "Solve" /\ s_last.w.mode = "set")
        => \A h2 \in Hessians(s_last.n, options_.use_ldlt) :
              SameUpper(h2, s_last.w.H)
                 => LET b == Build(options_, s_last.pre_H, s_last.pre_grad,
                                   s_last.n, [s_last.w EXCEPT !.H = h2],
                                   FALSE, Fin(0))
                    IN  /\ b.ret = s_last.ret
                        /\ Solve(options_, b.H, b.grad, b.nerr_) = s_last.dx

\* C18 as stated: every Build hands the residuals function a gradient and a
\* Hessian that are all 0, so that a residuals function that writes nothing
\* leaves them all 0.
C18_EveryBuildStartsFromZero ==
    Built
        => /\ IsZero(s_last.pre_H, s_last.pre_grad)
           /\ s_last.w.mode = "none" => IsZero(H_, grad_)

\* C18, amended: every Build called with resize_and_clear = true (the
\* default) hands the residuals function a gradient and a Hessian that are
\* all 0, so that a residuals function that writes nothing leaves them all
\* 0, whatever an earlier call left in the buffers.
C18_ClearingBuildStartsFromZero ==
    (Built /\ s_last.resize_and_clear)
        => /\ IsZero(s_last.pre_H, s_last.pre_grad)
           /\ s_last.w.mode = "none" => IsZero(H_, grad_)

\* a Build with resize_and_clear on buffers of dimension 2 that an earlier
\* call left with coefficients that are not 0, the residuals function
\* writing nothing
C18_Witness ==
    /\ s_last.op = "Build"
    /\ s_last.resize_and_clear
    /\ s_last.stale
    /\ s_last.n = 2
    /\ s_last.w.mode = "none"
    /\ IsZero(H_, grad_)

\* the matrix Solve() works on: LDLT reads the upper triangle of H_, the
\* explicit inverse all of it
SolvedMatrix == IF options_.use_ldlt THEN FillLower(H_) ELSE H_

\* the determinant of a matrix of dimension 1 or 2
Det(A) ==
    IF Len(A) = 1 THEN A[1][1]
    ELSE Add(Mul(A[1][1], A[2][2]), Neg(Mul(A[1][2], A[2][1])))

\* the matrix is positive definite
PositiveDefinite(A) == Gt(A[1][1], Fin(0)) /\ Gt(Det(A), Fin(0))

\* A * v
MatVec(A, v) ==
    [i \in 1..Len(A) |->
        IF Len(v) = 1 THEN Mul(A[i][1], v[1])
        ELSE Add(Mul(A[i][1], v[1]), Mul(A[i][2], v[2]))]

\* the system cannot be solved: the matrix given to LDLT is not positive
\* definite, the matrix given to inverse() is singular
CannotSolve ==
    IF options_.use_ldlt THEN ~PositiveDefinite(SolvedMatrix)
    ELSE Det(SolvedMatrix) = Fin(0)

\* C23: Solve() returns nullopt when the latest Build had no residuals or
\* when H cannot be factorised or inverted, and a step it returns satisfies
\* H * dx = -grad, with LDLT and with the explicit inverse.
C23_SolveFailsWithNullopt ==
    (Built /\ s_last.op = "Solve")
        => /\ (nerr_ = 0 \/ CannotSolve) => s_last.dx = NullOpt
           /\ s_last.dx.some
                  => MatVec(SolvedMatrix, s_last.dx.value) = NegVec(grad_)

\* C25: Solve() and Evaluate(x, f, save = false) leave the gradient, the
\* Hessian, the stored cost and the stored count as they are, and a Solve()
\* that follows another with no Build and no storing Evaluate in between
\* returns the same step.
C25_ReadOnlyUntilNextBuild ==
    [][(s_last'.op = "Solve" \/ (s_last'.op = "Evaluate" /\ ~s_last'.save))
          => /\ H_' = H_
             /\ grad_' = grad_
             /\ err_' = err_
             /\ nerr_' = nerr_
             /\ (s_last'.op = "Solve" /\ s_last.solved)
                    => s_last'.dx = s_last.dx]_vars

\* a second Solve after a Build, an Evaluate that does not save in between,
\* returning a step
C25_Witness ==
    /\ s_last.op = "Solve"
    /\ s_last.resolved
    /\ s_last.evaluated
    /\ ~s_last.saved
    /\ s_last.dx.some
    /\ err_ # Fin(64)

\* C29: right after Build(x, f) the gradient has dims(x) coefficients and
\* the Hessian dims(x) rows of dims(x) coefficients, whatever InitWith,
\* resize, reset and Build calls came before.
C29_BuildSetsDimensions ==
    (s_last.op = "Build" /\ s_last.resize_and_clear)
        => /\ Len(grad_) = s_last.n
           /\ Len(H_) = s_last.n
           /\ \A i \in 1..Len(H_) : Len(H_[i]) = s_last.n

\* C30: for every type a built-in trait handles, dims(v) is Dims whenever
\* Dims is not Dynamic: scalars, fixed-size vectors and fixed-size matrices
\* of more than one column.
C30_DimsIsDims ==
    (tr_last.op = "dims" /\ params_trait_Dims(tr_T) # Dynamic)
        => tr_last.dims = params_trait_Dims(tr_T)

-----------------------------------------------------------------------------
(* Properties of lm::Optimize with a wall-clock budget *)

\* the wall-clock budget is exceeded
OverBudget ==
    lm_options.max_duration_ms > 0 /\ lm_elapsed > lm_options.max_duration_ms

=============================================================================
